---- MODULE Spec2Model ----
(***************************************************************************)
(* The filter pipeline of src/src/bin/tq.py: parse_filter_string,          *)
(* apply_filters, the filter library and the part of main that runs them.  *)
(* A Python str is a sequence of one-character strings, a Document is a    *)
(* sequence of such lines.                                                 *)
(***************************************************************************)
EXTENDS Integers, Sequences, FiniteSets

\* ------------------------------------------------------------ characters

LowerLetters == <<"a","b","c","d","e","f","g","h","i","j","k","l","m","n","o","p","q","r","s","t","u","v","w","x","y","z">>
UpperLetters == <<"A","B","C","D","E","F","G","H","I","J","K","L","M","N","O","P","Q","R","S","T","U","V","W","X","Y","Z">>
DigitChars == <<"0","1","2","3","4","5","6","7","8","9">>

Range(s) == {s[k] : k \in DOMAIN s}
LowerSet == Range(LowerLetters)
UpperSet == Range(UpperLetters)
DigitSet == Range(DigitChars)
\* the characters str.strip() and int() treat as whitespace, of those modelled
Whitespace == {" ", "\t"}

IndexOf(s, c) == CHOOSE k \in DOMAIN s : s[k] = c
SetMin(S) == CHOOSE x \in S : \A y \in S : x <= y
SetMax(S) == CHOOSE x \in S : \A y \in S : x >= y

\* [a-zA-Z0-9]
isalnum(c) == c \in LowerSet \cup UpperSet \cup DigitSet
iscased(c) == c \in LowerSet \cup UpperSet

\* the code point, which orders strings under sorted()
ord(c) ==
    IF c \in LowerSet THEN 96 + IndexOf(LowerLetters, c)
    ELSE IF c \in UpperSet THEN 64 + IndexOf(UpperLetters, c)
    ELSE IF c \in DigitSet THEN 47 + IndexOf(DigitChars, c)
    ELSE CASE c = "\t" -> 9
           [] c = " " -> 32
           [] c = "!" -> 33
           [] c = "'" -> 39
           [] c = "+" -> 43
           [] c = "-" -> 45
           [] c = ":" -> 58
           [] c = "_" -> 95
           [] c = "|" -> 124

lower_char(c) == IF c \in UpperSet THEN LowerLetters[IndexOf(UpperLetters, c)] ELSE c
upper_char(c) == IF c \in LowerSet THEN UpperLetters[IndexOf(LowerLetters, c)] ELSE c

\* ------------------------------------------------------- str operations

\* s.lower(), s.upper()
lower(s) == [k \in DOMAIN s |-> lower_char(s[k])]
upper(s) == [k \in DOMAIN s |-> upper_char(s[k])]

\* s.lstrip(chars), s.rstrip(chars), s.strip(chars)
lstrip_chars(s, chars) ==
    LET keep == {k \in DOMAIN s : s[k] \notin chars}
    IN  IF keep = {} THEN <<>> ELSE SubSeq(s, SetMin(keep), Len(s))
rstrip_chars(s, chars) ==
    LET keep == {k \in DOMAIN s : s[k] \notin chars}
    IN  IF keep = {} THEN <<>> ELSE SubSeq(s, 1, SetMax(keep))
strip_chars(s, chars) == rstrip_chars(lstrip_chars(s, chars), chars)

\* s.lstrip(), s.strip()
lstrip(s) == lstrip_chars(s, Whitespace)
strip(s) == strip_chars(s, Whitespace)

\* s.split(sep) for a one-character sep: empty pieces are kept
RECURSIVE split(_, _)
split(s, sep) ==
    LET hits == {k \in DOMAIN s : s[k] = sep}
    IN  IF hits = {} THEN <<s>>
        ELSE LET p == SetMin(hits)
             IN  <<SubSeq(s, 1, p - 1)>> \o split(SubSeq(s, p + 1, Len(s)), sep)

\* s.startswith(prefix)
startswith(s, prefix) == Len(s) >= Len(prefix) /\ SubSeq(s, 1, Len(prefix)) = prefix

\* s[:n] and s[n:], n of either sign
slice_index(n, len) == IF n < 0 THEN (IF len + n < 0 THEN 0 ELSE len + n)
                       ELSE (IF n > len THEN len ELSE n)
slice_to(s, n) == SubSeq(s, 1, slice_index(n, Len(s)))
slice_from(s, n) == SubSeq(s, slice_index(n, Len(s)) + 1, Len(s))

\* c * n: the empty string for n <= 0
repeat(c, n) == [k \in 1..n |-> c]

\* s.capitalize(): first character upper, the rest lower
str_capitalize(s) == [k \in DOMAIN s |-> IF k = 1 THEN upper_char(s[k]) ELSE lower_char(s[k])]

\* s.title(): a cased character is uppercased when the character before it is
\* not cased (or there is none), lowercased otherwise
title(s) ==
    [k \in DOMAIN s |->
        IF k > 1 /\ iscased(s[k - 1]) THEN lower_char(s[k]) ELSE upper_char(s[k])]

\* str(n) for n >= 0: the decimal digits
RECURSIVE str(_)
str(n) == IF n < 10 THEN <<DigitChars[n + 1]>>
          ELSE str(n \div 10) \o <<DigitChars[(n % 10) + 1]>>

\* the value of a string of decimal digits
RECURSIVE digits_value(_)
digits_value(d) == IF d = <<>> THEN 0
                   ELSE 10 * digits_value(SubSeq(d, 1, Len(d) - 1)) + (IndexOf(DigitChars, d[Len(d)]) - 1)

\* int(token): surrounding whitespace is ignored, then an optional sign, then
\* digits, single underscores allowed between digits; anything else raises
\* ValueError
int(token) ==
    LET s == strip(token)
        signed == Len(s) > 0 /\ s[1] \in {"+", "-"}
        body == IF signed THEN Tail(s) ELSE s
        valid == /\ Len(body) > 0
                 /\ \A k \in DOMAIN body : body[k] \in DigitSet \cup {"_"}
                 /\ body[1] \in DigitSet
                 /\ body[Len(body)] \in DigitSet
                 /\ \A k \in 1..(Len(body) - 1) : ~(body[k] = "_" /\ body[k + 1] = "_")
        mag == digits_value(SelectSeq(body, LAMBDA c : c \in DigitSet))
    IN  IF valid
        THEN [ok |-> TRUE, val |-> IF signed /\ s[1] = "-" THEN 0 - mag ELSE mag]
        ELSE [ok |-> FALSE, val |-> 0]

\* a < b for str: lexicographic by code point
RECURSIVE str_lt(_, _)
str_lt(a, b) ==
    IF a = <<>> THEN b # <<>>
    ELSE IF b = <<>> THEN FALSE
    ELSE IF Head(a) = Head(b) THEN str_lt(Tail(a), Tail(b))
    ELSE ord(Head(a)) < ord(Head(b))

\* sorted(lines): ascending, stable
RECURSIVE insert_sorted(_, _)
insert_sorted(sortedl, x) ==
    IF sortedl = <<>> THEN <<x>>
    ELSE IF str_lt(x, Head(sortedl)) THEN <<x>> \o sortedl
    ELSE <<Head(sortedl)>> \o insert_sorted(Tail(sortedl), x)
RECURSIVE sorted(_)
sorted(lines) ==
    IF lines = <<>> THEN <<>>
    ELSE insert_sorted(sorted(SubSeq(lines, 1, Len(lines) - 1)), lines[Len(lines)])

\* re.sub(r'[^a-zA-Z0-9]+', rep, s): every maximal run of other characters
\* becomes one rep
RECURSIVE re_sub(_, _)
re_sub(rep, s) ==
    IF s = <<>> THEN <<>>
    ELSE IF isalnum(Head(s)) THEN <<Head(s)>> \o re_sub(rep, Tail(s))
    ELSE LET alnum == {k \in DOMAIN s : isalnum(s[k])}
         IN  IF alnum = {} THEN <<rep>>
             ELSE <<rep>> \o re_sub(rep, SubSeq(s, SetMin(alnum), Len(s)))

\* re.split(r'[^a-zA-Z0-9]+', s): the pieces between the runs, empty pieces
\* at the ends kept
RECURSIVE re_split(_)
re_split(s) ==
    LET hits == {k \in DOMAIN s : ~isalnum(s[k])}
    IN  IF hits = {} THEN <<s>>
        ELSE LET p == SetMin(hits)
                 alnum == {k \in p..Len(s) : isalnum(s[k])}
                 rest == IF alnum = {} THEN <<>> ELSE SubSeq(s, SetMin(alnum), Len(s))
             IN  <<SubSeq(s, 1, p - 1)>> \o re_split(rest)

\* ''.join(parts)
RECURSIVE concat(_)
concat(parts) == IF parts = <<>> THEN <<>> ELSE Head(parts) \o concat(Tail(parts))

\* s.rjust(width, fill), s.ljust(width, fill) for a one-character fill
rjust(s, width, fill) == repeat(fill[1], width - Len(s)) \o s
ljust(s, width, fill) == s \o repeat(fill[1], width - Len(s))

\* ------------------------------------------------- filter implementations

\* join returning the empty Document for the empty Document
join_EmptyForEmpty(lines) == IF lines = <<>> THEN <<>> ELSE <<concat(lines)>>

join(lines) == <<concat(lines)>>

\* snake_case with the strip of '_' done before the substitution
snake_case_StripFirst(line) == lower(re_sub("_", strip_chars(line, {"_"})))

snake_case(line) == lower(strip_chars(re_sub("_", line), {"_"}))

\* kebab_case without the strip of leading and trailing '-'
kebab_case_NoStrip(line) == lower(re_sub("-", line))

kebab_case(line) == lower(strip_chars(re_sub("-", line), {"-"}))

camel_case(line) ==
    LET words == re_split(line)
    IN  IF words # <<>>
        THEN lower(words[1])
             \o concat([k \in 1..(Len(words) - 1) |-> str_capitalize(words[k + 1])])
        ELSE <<>>

pascal_case(line) ==
    LET words == re_split(line)
    IN  concat([k \in DOMAIN words |-> str_capitalize(words[k])])

title_case(line) == title(line)

sentence_case(line) ==
    LET l == strip(line)
    IN  IF l # <<>> THEN upper(slice_to(l, 1)) \o lower(slice_from(l, 1)) ELSE <<>>

lowercase(line) == lower(line)

uppercase(line) == upper(line)

capitalize(line) == str_capitalize(line)

trim(line) == strip(line)

\* reverse stopping before the first character (line[:0:-1])
reverse_DropFirst(line) == [k \in 1..(Len(line) - 1) |-> line[Len(line) + 1 - k]]

reverse(line) == [k \in DOMAIN line |-> line[Len(line) + 1 - k]]

\* sort in descending order
sort_Descending(lines) == LET s == sorted(lines) IN [k \in DOMAIN s |-> s[Len(s) + 1 - k]]

sort(lines) == sorted(lines)

\* the loop of unique: seen is the set, result the list
RECURSIVE unique_loop(_, _, _)
unique_loop(lines, seen, result) ==
    IF lines = <<>> THEN result
    ELSE LET l == Head(lines)
         IN  IF l \notin seen
             THEN unique_loop(Tail(lines), seen \cup {l}, Append(result, l))
             ELSE unique_loop(Tail(lines), seen, result)

\* unique as sorted(set(lines)): the first occurrences, in sorted order
unique_SortedSet(lines) == unique_loop(sorted(lines), {}, <<>>)

\* unique keeping only the lines that stand once in the Document
unique_OnlySingles(lines) ==
    SelectSeq(lines, LAMBDA l : Cardinality({k \in DOMAIN lines : lines[k] = l}) = 1)

unique(lines) == unique_loop(lines, {}, <<>>)

count(line) == str(Len(line))

length(line) == str(Len(line))

first(lines) == IF lines # <<>> THEN <<lines[1]>> ELSE <<>>

\* last returning the line at the first position
last_AsFirst(lines) == IF lines # <<>> THEN <<lines[1]>> ELSE <<>>

last(lines) == IF lines # <<>> THEN <<lines[Len(lines)]>> ELSE <<>>

indent(line, n) == repeat(" ", n) \o line

\* dedent removing one leading whitespace character only
dedent_OneChar(line) == IF line # <<>> /\ line[1] \in Whitespace THEN Tail(line) ELSE line

dedent(line) == lstrip(line)

\* pad_left filling on the right of the line
pad_left_FillRight(line, width, char) == ljust(line, width, char)

pad_left(line, width, char) == rjust(line, width, char)

pad_right(line, width, char) == ljust(line, width, char)

\* remove_empty dropping only the lines that are the empty string
remove_empty_OnlyEmpty(lines) == SelectSeq(lines, LAMBDA l : l # <<>>)

remove_empty(lines) == SelectSeq(lines, LAMBDA l : strip(l) # <<>>)

\* truncate keeping one character more
truncate_OneMore(line, len) == slice_to(line, len + 1)

truncate(line, len) == slice_to(line, len)

\* col_width as a function: the while loop over one line, then over the
\* lines. It is defined where the loop ends (see ColWidthSlice for the loop
\* taken one iteration at a time).
RECURSIVE col_width_line(_, _)
col_width_line(line, width) ==
    IF Len(line) > width
    THEN <<slice_to(line, width)>> \o col_width_line(slice_from(line, width), width)
    ELSE IF line # <<>> THEN <<line>> ELSE <<>>
RECURSIVE col_width(_, _)
col_width(lines, width) ==
    IF lines = <<>> THEN <<>>
    ELSE col_width_line(Head(lines), width) \o col_width(Tail(lines), width)

\* ------------------------------------------------------------- registry

N_join == <<"j","o","i","n">>
N_sort == <<"s","o","r","t">>
N_unique == <<"u","n","i","q","u","e">>
N_first == <<"f","i","r","s","t">>
N_last == <<"l","a","s","t">>
N_remove_empty == <<"r","e","m","o","v","e","-","e","m","p","t","y">>
N_col_width == <<"c","o","l","-","w","i","d","t","h">>
N_indent == <<"i","n","d","e","n","t">>
N_pad_left == <<"p","a","d","-","l","e","f","t">>
N_pad_right == <<"p","a","d","-","r","i","g","h","t">>
N_truncate == <<"t","r","u","n","c","a","t","e">>
N_snake_case == <<"s","n","a","k","e","-","c","a","s","e">>
N_kebab_case == <<"k","e","b","a","b","-","c","a","s","e">>
N_camel_case == <<"c","a","m","e","l","-","c","a","s","e">>
N_pascal_case == <<"p","a","s","c","a","l","-","c","a","s","e">>
N_title_case == <<"t","i","t","l","e","-","c","a","s","e">>
N_sentence_case == <<"s","e","n","t","e","n","c","e","-","c","a","s","e">>
N_lowercase == <<"l","o","w","e","r","c","a","s","e">>
N_uppercase == <<"u","p","p","e","r","c","a","s","e">>
N_capitalize == <<"c","a","p","i","t","a","l","i","z","e">>
N_trim == <<"t","r","i","m">>
N_reverse == <<"r","e","v","e","r","s","e">>
N_count == <<"c","o","u","n","t">>
N_length == <<"l","e","n","g","t","h">>
N_dedent == <<"d","e","d","e","n","t">>

\* the defaults of the parameters
INDENT_DEFAULT == 4
COL_WIDTH_DEFAULT == 10
PAD_LEFT_DEFAULT == 10
PAD_RIGHT_DEFAULT == 10
TRUNCATE_DEFAULT == 10
PAD_CHAR_DEFAULT == <<" ">>

\* the keys of the dict get_filters returns
get_filters ==
    { N_join, N_snake_case, N_kebab_case, N_camel_case, N_pascal_case,
      N_title_case, N_sentence_case, N_lowercase, N_uppercase, N_capitalize,
      N_trim, N_reverse, N_sort, N_unique, N_count, N_length, N_first, N_last,
      N_indent, N_dedent, N_pad_left, N_pad_right, N_truncate }

\* func(line) for func = filters.get(f), f a key that reaches the lookup
\* (apply_filters handles join, sort, unique, first, last and every name that
\* starts with indent, pad-left, pad-right or truncate before it)
filters_call(f, line) ==
    CASE f = N_snake_case -> snake_case(line)
      [] f = N_kebab_case -> kebab_case(line)
      [] f = N_camel_case -> camel_case(line)
      [] f = N_pascal_case -> pascal_case(line)
      [] f = N_title_case -> title_case(line)
      [] f = N_sentence_case -> sentence_case(line)
      [] f = N_lowercase -> lowercase(line)
      [] f = N_uppercase -> uppercase(line)
      [] f = N_capitalize -> capitalize(line)
      [] f = N_trim -> trim(line)
      [] f = N_reverse -> reverse(line)
      [] f = N_count -> count(line)
      [] f = N_length -> length(line)
      [] f = N_dedent -> dedent(line)

\* ---------------------------------------------------------------- parser

\* args.filter when no filter is given: no str is equal to it
None == <<"None">>

\* parse_filter_string without its test for an empty filter_str
parse_filter_string_NoEmptyTest(filter_str) ==
    LET segs == split(filter_str, "|")
    IN  [k \in DOMAIN segs |-> strip(segs[k])]

\* parse_filter_string without the strip of the segments
parse_filter_string_NoStrip(filter_str) ==
    IF filter_str = None \/ filter_str = <<>> THEN <<>>
    ELSE split(filter_str, "|")

parse_filter_string(filter_str) ==
    IF filter_str = None \/ filter_str = <<>> THEN <<>>
    ELSE LET segs == split(filter_str, "|")
         IN  [k \in DOMAIN segs |-> strip(segs[k])]

\* -------------------------------------------------------------- executor

\* what one iteration of the loop of apply_filters gives: the new lines, or
\* the exception it raises (type, and the token its message quotes)
NoExc == [type |-> "", token |-> <<>>]
Returns(ls) == [ok |-> TRUE, lines |-> ls, exc |-> NoExc]
Raises(type, token) == [ok |-> FALSE, lines |-> <<>>, exc |-> [type |-> type, token |-> token]]

\* int_param with 1 in the place of every default
int_param_DefaultOne(parts, default) ==
    IF Len(parts) > 1 THEN int(parts[2]) ELSE [ok |-> TRUE, val |-> 1]

\* int(parts[1]) if len(parts) > 1 else default
int_param(parts, default) ==
    IF Len(parts) > 1 THEN int(parts[2]) ELSE [ok |-> TRUE, val |-> default]

\* parts[2] if len(parts) > 2 else ' '
char_param(parts) == IF Len(parts) > 2 THEN parts[3] ELSE PAD_CHAR_DEFAULT

\* the branch of apply_filters a segment takes
branch(f) ==
    IF f \in {N_join, N_sort, N_unique, N_first, N_last, N_remove_empty} THEN f
    ELSE IF startswith(f, N_col_width) THEN N_col_width
    ELSE IF startswith(f, N_indent) THEN N_indent
    ELSE IF startswith(f, N_pad_left) THEN N_pad_left
    ELSE IF startswith(f, N_pad_right) THEN N_pad_right
    ELSE IF startswith(f, N_truncate) THEN N_truncate
    ELSE IF f \in get_filters THEN <<"f","u","n","c">>
    ELSE <<>>

\* one iteration of the loop of apply_filters, for the segment f
apply_filter(lines, f) ==
    LET b == branch(f)
        parts == split(f, ":")
    IN  CASE b = N_join -> Returns(join(lines))
          [] b = N_sort -> Returns(sort(lines))
          [] b = N_unique -> Returns(unique(lines))
          [] b = N_first -> Returns(first(lines))
          [] b = N_last -> Returns(last(lines))
          [] b = N_remove_empty -> Returns(remove_empty(lines))
          [] b = N_col_width ->
                LET w == int_param(parts, COL_WIDTH_DEFAULT)
                IN  IF ~w.ok THEN Raises("ValueError", parts[2])
                    ELSE Returns(col_width(lines, w.val))
          [] b = N_indent ->
                LET n == int_param(parts, INDENT_DEFAULT)
                IN  IF ~n.ok THEN Raises("ValueError", parts[2])
                    ELSE Returns([k \in DOMAIN lines |-> indent(lines[k], n.val)])
          [] b = N_pad_left ->
                LET w == int_param(parts, PAD_LEFT_DEFAULT)
                    c == char_param(parts)
                IN  IF ~w.ok THEN Raises("ValueError", parts[2])
                    ELSE IF lines # <<>> /\ Len(c) # 1 THEN Raises("TypeError", <<>>)
                    ELSE Returns([k \in DOMAIN lines |-> pad_left(lines[k], w.val, c)])
          [] b = N_pad_right ->
                LET w == int_param(parts, PAD_RIGHT_DEFAULT)
                    c == char_param(parts)
                IN  IF ~w.ok THEN Raises("ValueError", parts[2])
                    ELSE IF lines # <<>> /\ Len(c) # 1 THEN Raises("TypeError", <<>>)
                    ELSE Returns([k \in DOMAIN lines |-> pad_right(lines[k], w.val, c)])
          [] b = N_truncate ->
                LET len == int_param(parts, TRUNCATE_DEFAULT)
                IN  IF ~len.ok THEN Raises("ValueError", parts[2])
                    ELSE Returns([k \in DOMAIN lines |-> truncate(lines[k], len.val)])
          [] b = <<"f","u","n","c">> ->
                Returns([k \in DOMAIN lines |-> filters_call(f, lines[k])])
          [] b = <<>> -> Returns([k \in DOMAIN lines |-> lines[k]])

\* apply_filters as a function of the Document and the chain: the for loop,
\* left when an iteration raises
RECURSIVE apply_filters(_, _)
apply_filters(ls, chain) ==
    IF chain = <<>> THEN Returns(ls)
    ELSE LET r == apply_filter(ls, Head(chain))
         IN  IF r.ok THEN apply_filters(r.lines, Tail(chain)) ELSE r

\* ---------------------------------------------------------------- inputs

\* the longest Document, the longest chain written out of ChainPool, the
\* most blanks written around a segment, and the longest result the loop of
\* col_width is followed to
MaxDoc == 2
MaxChain == 2
MaxPad == 1
MaxResult == 14

BoundedSeq(S, n) == UNION {[1..k -> S] : k \in 0..n}

\* the lines of the input Documents: short ones, and one longer than every
\* default width
ShortLines == { <<>>, <<"b"," ","a">>, <<" ","A","_">>, <<"c">> }
LongLine == <<"H","e","l","l","o"," ","W","o","r","l","d","!">>
Documents == BoundedSeq(ShortLines, MaxDoc) \cup { <<LongLine>> }

\* segments as written between the pipes: every registered name alone, with
\* parameters, with malformed or surplus parameters, and unknown names
Names ==
    get_filters \cup {N_remove_empty, N_col_width}
ParamSegments ==
    {
      <<"i","n","d","e","n","t",":","4">>, <<"i","n","d","e","n","t",":","1">>,
      <<"i","n","d","e","n","t",":"," ","2">>, <<"i","n","d","e","n","t",":","x">>,
      <<"i","n","d","e","n","t",":","2",":","3">>, <<"i","n","d","e","n","t","x">>,
      <<"i","n","d","e","n","t",":","-","1">>, <<"t","r","u","n","c","a","t","e",":","1","0">>,
      <<"t","r","u","n","c","a","t","e",":","1">>, <<"t","r","u","n","c","a","t","e",":","x">>,
      <<"t","r","u","n","c","a","t","e",":","1",":","2">>,
      <<"c","o","l","-","w","i","d","t","h",":","1","0">>,
      <<"c","o","l","-","w","i","d","t","h",":","2">>,
      <<"c","o","l","-","w","i","d","t","h",":","x">>,
      <<"c","o","l","-","w","i","d","t","h",":","2",":","3">>,
      <<"c","o","l","-","w","i","d","t","h",":","0">>,
      <<"p","a","d","-","l","e","f","t",":","1","0">>, <<"p","a","d","-","l","e","f","t",":","3">>,
      <<"p","a","d","-","l","e","f","t",":","3",":","_">>,
      <<"p","a","d","-","l","e","f","t",":","3",":"," ">>,
      <<"p","a","d","-","l","e","f","t",":","3",":","a","b">>,
      <<"p","a","d","-","l","e","f","t",":","x">>,
      <<"p","a","d","-","l","e","f","t",":","3",":","_",":","9">>,
      <<"p","a","d","-","l","e","f","t",":","3",":">>,
      <<"p","a","d","-","r","i","g","h","t",":","1","0">>,
      <<"p","a","d","-","r","i","g","h","t",":","3">>,
      <<"p","a","d","-","r","i","g","h","t",":","3",":","_">>,
      <<"p","a","d","-","r","i","g","h","t",":","3",":"," ">>,
      <<"p","a","d","-","r","i","g","h","t",":","3",":","a","b">>,
      <<"p","a","d","-","r","i","g","h","t",":","x">>,
      <<"p","a","d","-","r","i","g","h","t",":","3",":","_",":","9">>, <<"x","y","z">>, <<>>,
      <<"s","o","r","t",":","1">>, <<"j","o","i","n",":","x">>,
      <<"u","p","p","e","r","c","a","s","e",":","2">>, <<"S","o","r","t">>
    }
Segments == Names \cup ParamSegments

\* the segments longer chains are written from
ChainPool ==
    { N_sort, N_reverse, N_join, N_count, N_pad_left, <<"i","n","d","e","n","t",":","x">> }
WrittenChains == {<<s>> : s \in Segments} \cup (BoundedSeq(ChainPool, MaxChain) \ {<<>>})

\* the expression that writes the segments with p blanks on each side of each
RECURSIVE Layout(_, _)
Layout(segs, p) ==
    LET seg == repeat(" ", p) \o Head(segs) \o repeat(" ", p)
    IN  IF Len(segs) = 1 THEN seg ELSE seg \o <<"|">> \o Layout(Tail(segs), p)
Expressions ==
    {Layout(c, p) : c \in WrittenChains, p \in 0..MaxPad} \cup { <<"\t","s","o","r","t"," ","|","t","r","i","m">> }

\* ----------------------------------------------------------------- state

VARIABLES
    input,          \* main: the lines read, the list handed to apply_filters
    filter,         \* main: args.filter, a str or None
    pc,             \* where the run is: main, apply_filters, col_width, done, raised
    filter_chain,   \* main: the parsed chain
    i,              \* apply_filters: the position in filter_chain of the for loop
    lines,          \* apply_filters: its local lines
    cw,             \* col_width: its locals width, line, result, and the lines still to take
    exc,            \* the exception that ended the run
    stdout          \* the lines printed

vars == <<input, filter, pc, filter_chain, i, lines, cw, exc, stdout>>

NoFrame == [width |-> 0, todo |-> <<>>, line |-> <<>>, result |-> <<>>]

Init ==
    /\ input \in Documents
    /\ filter \in {None} \cup Expressions
    /\ pc = "main"
    /\ filter_chain = <<>>
    /\ i = 0
    /\ lines = <<>>
    /\ cw = NoFrame
    /\ exc = NoExc
    /\ stdout = <<>>

\* main, args.filter is None: the lines are printed as read
MainNoFilter ==
    /\ pc = "main"
    /\ filter = None
    /\ stdout' = input
    /\ pc' = "done"
    /\ UNCHANGED <<input, filter, filter_chain, i, lines, cw, exc>>

\* main: the chain is parsed and apply_filters is entered
MainParse ==
    /\ pc = "main"
    /\ filter # None
    /\ filter_chain' = parse_filter_string(filter)
    /\ lines' = input
    /\ i' = 1
    /\ pc' = "apply_filters"
    /\ UNCHANGED <<input, filter, cw, exc, stdout>>

\* ApplyFilter with the chain taken from its end (right to left)
ApplyFilter_RightToLeft ==
    /\ pc = "apply_filters"
    /\ i <= Len(filter_chain)
    /\ branch(filter_chain[Len(filter_chain) + 1 - i]) # N_col_width
    /\ apply_filter(lines, filter_chain[Len(filter_chain) + 1 - i]).ok
    /\ lines' = apply_filter(lines, filter_chain[Len(filter_chain) + 1 - i]).lines
    /\ i' = i + 1
    /\ UNCHANGED <<input, filter, pc, filter_chain, cw, exc, stdout>>

\* ApplyFilter with the empty lines of the result left out
ApplyFilter_DropEmpty ==
    /\ pc = "apply_filters"
    /\ i <= Len(filter_chain)
    /\ branch(filter_chain[i]) # N_col_width
    /\ apply_filter(lines, filter_chain[i]).ok
    /\ lines' = SelectSeq(apply_filter(lines, filter_chain[i]).lines, LAMBDA l : l # <<>>)
    /\ i' = i + 1
    /\ UNCHANGED <<input, filter, pc, filter_chain, cw, exc, stdout>>

\* ApplyFilter with the result written into the list it was given: on the
\* first iteration that list is the caller's
ApplyFilter_InPlace ==
    /\ pc = "apply_filters"
    /\ i <= Len(filter_chain)
    /\ branch(filter_chain[i]) # N_col_width
    /\ apply_filter(lines, filter_chain[i]).ok
    /\ lines' = apply_filter(lines, filter_chain[i]).lines
    /\ input' = IF i = 1 THEN apply_filter(lines, filter_chain[i]).lines ELSE input
    /\ i' = i + 1
    /\ UNCHANGED <<filter, pc, filter_chain, cw, exc, stdout>>

\* apply_filters: one iteration of the for loop, for every branch but
\* col-width, that returns
ApplyFilter ==
    /\ pc = "apply_filters"
    /\ i <= Len(filter_chain)
    /\ branch(filter_chain[i]) # N_col_width
    /\ apply_filter(lines, filter_chain[i]).ok
    /\ lines' = apply_filter(lines, filter_chain[i]).lines
    /\ i' = i + 1
    /\ UNCHANGED <<input, filter, pc, filter_chain, cw, exc, stdout>>

\* ApplyFilterRaise with the exception caught and the loop going on
ApplyFilterRaise_Continue ==
    /\ pc = "apply_filters"
    /\ i <= Len(filter_chain)
    /\ branch(filter_chain[i]) # N_col_width
    /\ ~apply_filter(lines, filter_chain[i]).ok
    /\ exc' = apply_filter(lines, filter_chain[i]).exc
    /\ i' = i + 1
    /\ UNCHANGED <<input, filter, pc, filter_chain, lines, cw, stdout>>

\* apply_filters: the iteration raises, in int() or in rjust/ljust; nothing
\* catches it in apply_filters or in main
ApplyFilterRaise ==
    /\ pc = "apply_filters"
    /\ i <= Len(filter_chain)
    /\ branch(filter_chain[i]) # N_col_width
    /\ ~apply_filter(lines, filter_chain[i]).ok
    /\ exc' = apply_filter(lines, filter_chain[i]).exc
    /\ pc' = "raised"
    /\ UNCHANGED <<input, filter, filter_chain, i, lines, cw, stdout>>

\* the for loop of col_width takes the next line, or col_width returns and
\* the iteration of apply_filters ends
ColWidthNext(frame) ==
    IF frame.todo # <<>>
    THEN /\ cw' = [frame EXCEPT !.line = Head(frame.todo), !.todo = Tail(frame.todo)]
         /\ pc' = "col_width"
         /\ UNCHANGED <<lines, i>>
    ELSE /\ lines' = frame.result
         /\ i' = i + 1
         /\ cw' = NoFrame
         /\ pc' = "apply_filters"

\* apply_filters, the col-width branch: the width is read and col_width called
ColWidthCall ==
    /\ pc = "apply_filters"
    /\ i <= Len(filter_chain)
    /\ branch(filter_chain[i]) = N_col_width
    /\ LET w == int_param(split(filter_chain[i], ":"), COL_WIDTH_DEFAULT)
       IN  IF w.ok
           THEN /\ ColWidthNext([width |-> w.val, todo |-> lines, line |-> <<>>, result |-> <<>>])
                /\ UNCHANGED exc
           ELSE /\ exc' = [type |-> "ValueError", token |-> split(filter_chain[i], ":")[2]]
                /\ pc' = "raised"
                /\ UNCHANGED <<lines, i, cw>>
    /\ UNCHANGED <<input, filter, filter_chain, stdout>>

\* ColWidthSlice with the rest of the line taken one character too far
ColWidthSlice_SkipChar ==
    /\ pc = "col_width"
    /\ Len(cw.line) > cw.width
    /\ Len(cw.result) < MaxResult
    /\ cw' = [cw EXCEPT !.result = Append(cw.result, slice_to(cw.line, cw.width)),
                        !.line = slice_from(cw.line, cw.width + 1)]
    /\ UNCHANGED <<input, filter, pc, filter_chain, i, lines, exc, stdout>>

\* col_width: one iteration of the while loop
ColWidthSlice ==
    /\ pc = "col_width"
    /\ Len(cw.line) > cw.width
    /\ Len(cw.result) < MaxResult
    /\ cw' = [cw EXCEPT !.result = Append(cw.result, slice_to(cw.line, cw.width)),
                        !.line = slice_from(cw.line, cw.width)]
    /\ UNCHANGED <<input, filter, pc, filter_chain, i, lines, exc, stdout>>

\* col_width: the while loop ends, the rest of the line is kept if not empty
ColWidthEmit ==
    /\ pc = "col_width"
    /\ ~(Len(cw.line) > cw.width)
    /\ ColWidthNext([cw EXCEPT !.result = IF cw.line # <<>> THEN Append(cw.result, cw.line)
                                          ELSE cw.result,
                               !.line = <<>>])
    /\ UNCHANGED <<input, filter, filter_chain, exc, stdout>>

\* apply_filters returns and main prints the result
MainPrint ==
    /\ pc = "apply_filters"
    /\ i > Len(filter_chain)
    /\ stdout' = lines
    /\ pc' = "done"
    /\ UNCHANGED <<input, filter, filter_chain, i, lines, cw, exc>>

Next ==
    \/ MainNoFilter
    \/ MainParse
    \/ ApplyFilter
    \/ ApplyFilterRaise
    \/ ColWidthCall
    \/ ColWidthSlice
    \/ ColWidthEmit
    \/ MainPrint

Spec == Init /\ [][Next]_vars

\* ------------------------------------------------ the runs of the filters
\* The same program on inputs chosen for what the filters compute: every line
\* up to a length as a one-line Document, longer Documents of a few short
\* lines, and every integer-parameter filter with every width of a range
\* that holds negative widths and zero.

\* the longest line of a one-line Document, the longest Document of short
\* lines, and the largest width written
LibMaxLen == 3
LibMaxDoc == 3
LibMaxWidth == 3

LibChars == {"a", "B", " "}
LibLines == BoundedSeq(LibChars, LibMaxLen)
LibShortLines == { <<>>, <<" ">>, <<"B">>, <<"a">>, <<"a","B">> }
LibDocuments == {<<l>> : l \in LibLines} \cup BoundedSeq(LibShortLines, LibMaxDoc)

\* an integer as it is written in an expression
WidthText(n) == IF n < 0 THEN <<"-">> \o str(0 - n) ELSE str(n)
LibWidths == (0 - 1)..LibMaxWidth
LibFills == { <<"_">>, <<"a">> }

LibWidthSegments ==
    {name \o <<":">> \o WidthText(n) :
        name \in {N_col_width, N_truncate, N_indent, N_pad_left, N_pad_right}, n \in LibWidths}
LibFillSegments ==
    {name \o <<":">> \o WidthText(n) \o <<":">> \o c :
        name \in {N_pad_left, N_pad_right}, n \in LibWidths, c \in LibFills}
LibNames ==
    { N_unique, N_sort, N_first, N_last, N_join, N_remove_empty,
      N_trim, N_lowercase, N_uppercase, N_dedent, N_col_width, N_pad_left, N_pad_right }
LibChains ==
    {<<s>> : s \in LibWidthSegments \cup LibFillSegments \cup LibNames}
    \cup {<<f, f>> : f \in {N_trim, N_lowercase, N_uppercase, N_dedent}}
    \cup { <<N_sort, N_unique>>, <<N_unique, N_sort>>, <<N_reverse>>, <<N_reverse, N_reverse>> }
    \cup { <<N_join, N_count>>, <<N_join, N_uppercase>>,
           <<N_col_width \o <<":","x">>>>, <<N_pad_left \o <<":","2",":","a","b">>>> }
LibExpressions == {Layout(c, 0) : c \in LibChains} \cup {Layout(c, 1) : c \in LibChains}

LibInit ==
    /\ input \in LibDocuments
    /\ filter \in {None} \cup LibExpressions
    /\ pc = "main"
    /\ filter_chain = <<>>
    /\ i = 0
    /\ lines = <<>>
    /\ cw = NoFrame
    /\ exc = NoExc
    /\ stdout = <<>>

LibSpec == LibInit /\ [][Next]_vars

\* ------------------------------------------- the runs of the case filters
\* The same program on one-line Documents over letters of both cases, a
\* digit, the separators '_' and '-', the apostrophe and the blank, with the
\* filters that rewrite the words of a line.

\* the longest line
CaseMaxLen == 3

CaseChars == {"a", "B", "1", "_", "-", "'", " "}
CaseLines == BoundedSeq(CaseChars, CaseMaxLen)
CaseDocuments == {<<l>> : l \in CaseLines} \cup { <<>> }
CaseChains ==
    { <<N_snake_case>>, <<N_kebab_case>>, <<N_camel_case>>, <<N_pascal_case>>, <<N_title_case>>,
      <<N_snake_case, N_snake_case>>, <<N_kebab_case, N_kebab_case>>,
      <<N_snake_case, N_kebab_case>>, <<N_kebab_case, N_snake_case>>,
      <<N_col_width \o <<":","1">>>>, <<N_indent \o <<":","x">>>> }
CaseExpressions == {Layout(c, 0) : c \in CaseChains}

CaseInit ==
    /\ input \in CaseDocuments
    /\ filter \in {None} \cup CaseExpressions
    /\ pc = "main"
    /\ filter_chain = <<>>
    /\ i = 0
    /\ lines = <<>>
    /\ cw = NoFrame
    /\ exc = NoExc
    /\ stdout = <<>>

CaseSpec == CaseInit /\ [][Next]_vars

\* ----------------------------------------------------------------- claims

\* the name of an invocation: the first ':'-separated token, trimmed
InvocationName(f) == strip(split(f, ":")[1])

\* C1: the chain is applied left to right, each invocation to the whole
\* Document the one before it returned: while apply_filters runs, its lines
\* are the result of the segments before position i applied in written order
\* to the input, and the Document printed is, for every split of the chain,
\* the second part applied to the result of the first.
C1_LeftToRight ==
    /\ pc = "apply_filters" =>
          LET r == apply_filters(input, SubSeq(filter_chain, 1, i - 1))
          IN  r.ok /\ lines = r.lines
    /\ (pc = "done" /\ filter # None) =>
          \A k \in 0..Len(filter_chain) :
             LET r1 == apply_filters(input, SubSeq(filter_chain, 1, k))
             IN  /\ r1.ok
                 /\ apply_filters(r1.lines, SubSeq(filter_chain, k + 1, Len(filter_chain)))
                       = Returns(stdout)

\* a run of join | count on two lines has ended, and count | join would have
\* printed something else
C1_Witness ==
    /\ pc = "done"
    /\ filter_chain = <<N_join, N_count>>
    /\ Len(input) = 2
    /\ stdout # apply_filters(input, <<N_count, N_join>>).lines

\* the element-wise filters
ElementWiseNames ==
    { N_snake_case, N_kebab_case, N_camel_case, N_pascal_case, N_title_case,
      N_sentence_case, N_lowercase, N_uppercase, N_capitalize, N_trim, N_reverse,
      N_count, N_length, N_indent, N_dedent, N_pad_left, N_pad_right, N_truncate }

\* C2: an iteration of an element-wise filter that returns keeps the length
\* of the Document, and its output line k is what the same invocation gives
\* on the Document made of input line k alone.
C2_Cardinality ==
    [][ ( /\ pc = "apply_filters"
          /\ i <= Len(filter_chain)
          /\ InvocationName(filter_chain[i]) \in ElementWiseNames
          /\ i' = i + 1 )
        => ( /\ Len(lines') = Len(lines)
             /\ \A k \in DOMAIN lines :
                   lines'[k] = apply_filter(<<lines[k]>>, filter_chain[i]).lines[1] ) ]_vars

\* pad-left:3:_ has been applied to two different lines and changed them
C2_Witness ==
    /\ pc = "apply_filters"
    /\ i = 2
    /\ filter_chain[1] = <<"p","a","d","-","l","e","f","t",":","3",":","_">>
    /\ Len(input) = 2
    /\ input[1] # input[2]
    /\ Len(lines) = 2
    /\ lines[1] # input[1]
    /\ lines[2] # input[2]

\* C3: an iteration for a segment whose name is none of the 25 registered
\* names returns the Document unchanged and the loop goes on.
C3_UnknownIsNoOp ==
    [][ ( /\ pc = "apply_filters"
          /\ i <= Len(filter_chain)
          /\ InvocationName(filter_chain[i]) \notin Names )
        => ( /\ pc' = "apply_filters"
             /\ i' = i + 1
             /\ lines' = lines ) ]_vars

\* the filters that take an integer, and an invocation of one of them with a
\* token int() refuses or a pad fill that is not one character
IntParamNames == {N_indent, N_truncate, N_col_width, N_pad_left, N_pad_right}
MalformedInvocation(f) ==
    LET parts == split(f, ":")
    IN  /\ InvocationName(f) \in IntParamNames
        /\ \/ Len(parts) > 1 /\ ~int(parts[2]).ok
           \/ /\ InvocationName(f) \in {N_pad_left, N_pad_right}
              /\ Len(parts) > 2
              /\ Len(parts[3]) # 1

\* C4: a run whose chain holds a malformed invocation ends in an error (the
\* claim's first half: no Document is returned).
C4_MalformedParameterRaises ==
    ( /\ pc \in {"done", "raised"}
      /\ filter # None
      /\ \E k \in DOMAIN filter_chain : MalformedInvocation(filter_chain[k]) )
    => pc = "raised"

\* C5: with no filter or an empty one the chain is empty, nothing raises and
\* what is printed is the input Document.
C5_EmptyExpression ==
    (filter = None \/ filter = <<>>) =>
        /\ parse_filter_string(filter) = <<>>
        /\ filter_chain = <<>>
        /\ pc \in {"main", "apply_filters", "done"}
        /\ (pc = "apply_filters" => lines = input)
        /\ (pc = "done" => stdout = input)

\* the run of the empty expression on a Document of two lines has ended
C5_Witness ==
    /\ pc = "done"
    /\ filter = <<>>
    /\ Len(input) = 2
    /\ stdout = input

\* the expression with the whitespace around its pipes and at its ends taken
\* out: a whitespace character goes when only whitespace lies between it and
\* a pipe or an end of the expression
PipeOrEnd(e, k) == k < 1 \/ k > Len(e) \/ e[k] = "|"
Removable(e, k) ==
    /\ e[k] \in Whitespace
    /\ \/ \E j \in 0..(k - 1) : PipeOrEnd(e, j) /\ \A m \in (j + 1)..k : e[m] \in Whitespace
       \/ \E j \in (k + 1)..(Len(e) + 1) : PipeOrEnd(e, j) /\ \A m \in k..(j - 1) : e[m] \in Whitespace
RECURSIVE Pick(_, _, _)
Pick(e, K, k) ==
    IF k > Len(e) THEN <<>>
    ELSE (IF k \in K THEN <<e[k]>> ELSE <<>>) \o Pick(e, K, k + 1)
Canon(e) == Pick(e, {k \in DOMAIN e : ~Removable(e, k)}, 1)
CountPipes(e) == Cardinality({k \in DOMAIN e : e[k] = "|"})

\* what a run of the chain on the input ends in
SameOutcome(chain) ==
    /\ pc = "done" => apply_filters(input, chain) = Returns(stdout)
    /\ pc = "raised" => apply_filters(input, chain) = [ok |-> FALSE, lines |-> <<>>, exc |-> exc]

\* C6 as stated: a non-empty expression with k pipes gives k + 1 stripped
\* segments in written order, and the chain and the outcome are those of the
\* expression with the whitespace around its pipes and at its ends removed.
C6_WhitespaceNeverChangesChain ==
    (pc # "main" /\ filter # None /\ filter # <<>>) =>
        /\ Len(filter_chain) = CountPipes(filter) + 1
        /\ \A k \in DOMAIN filter_chain : filter_chain[k] = strip(split(filter, "|")[k])
        /\ filter_chain = parse_filter_string(Canon(filter))
        /\ SameOutcome(parse_filter_string(Canon(filter)))

\* C6 amended: the same, the chain compared only when the expression without
\* that whitespace is not empty.
C6_WhitespaceInsensitive ==
    (pc # "main" /\ filter # None /\ filter # <<>>) =>
        /\ Len(filter_chain) = CountPipes(filter) + 1
        /\ \A k \in DOMAIN filter_chain : filter_chain[k] = strip(split(filter, "|")[k])
        /\ (Canon(filter) # <<>> => filter_chain = parse_filter_string(Canon(filter)))
        /\ SameOutcome(parse_filter_string(Canon(filter)))

\* the run of " sort | reverse " has ended and changed the Document
C6_Witness ==
    /\ pc = "done"
    /\ filter = <<" ","s","o","r","t"," ","|"," ","r","e","v","e","r","s","e"," ">>
    /\ Canon(filter) = <<"s","o","r","t","|","r","e","v","e","r","s","e">>
    /\ filter_chain = <<N_sort, N_reverse>>
    /\ stdout # input

\* a segment written without its parameters, with the defaults written out
Explicit(f) ==
    CASE f = N_indent -> <<"i","n","d","e","n","t",":","4">>
      [] f = N_truncate -> <<"t","r","u","n","c","a","t","e",":","1","0">>
      [] f = N_col_width -> <<"c","o","l","-","w","i","d","t","h",":","1","0">>
      [] f = N_pad_left -> <<"p","a","d","-","l","e","f","t",":","1","0">>
      [] f = N_pad_right -> <<"p","a","d","-","r","i","g","h","t",":","1","0">>
      [] OTHER -> f

\* C7: the lines of apply_filters are those the chain gives with indent,
\* truncate, col-width, pad-left and pad-right written as indent:4,
\* truncate:10, col-width:10, pad-left:10 and pad-right:10; and pad-left or
\* pad-right with no fill token, with or without a width w, pads every line
\* to 10 or w with spaces.
C7_Defaults ==
    /\ pc = "apply_filters" =>
          lines = apply_filters(input, [k \in 1..(i - 1) |-> Explicit(filter_chain[k])]).lines
    /\ (pc = "apply_filters" /\ i = 2) =>
          LET parts == split(filter_chain[1], ":")
              w == IF Len(parts) = 2 THEN int(parts[2]).val ELSE 10
          IN  /\ (parts[1] = N_pad_left /\ Len(parts) <= 2) =>
                    lines = [k \in DOMAIN input |-> pad_left(input[k], w, <<" ">>)]
              /\ (parts[1] = N_pad_right /\ Len(parts) <= 2) =>
                    lines = [k \in DOMAIN input |-> pad_right(input[k], w, <<" ">>)]

\* truncate alone has cut the line of 12 characters to its first 10
C7_Witness ==
    /\ pc = "done"
    /\ filter_chain = <<N_truncate>>
    /\ input = <<LongLine>>
    /\ stdout = <<SubSeq(LongLine, 1, 10)>>

\* C8: an iteration for a segment written pad-left:w:' ' or pad-right:w:' '
\* (w an integer, the fill one space) returns every line padded to w with
\* spaces.
C8_SpaceFillAccepted ==
    [][ ( /\ pc = "apply_filters"
          /\ i <= Len(filter_chain)
          /\ LET parts == split(split(filter, "|")[i], ":")
             IN  /\ strip(parts[1]) \in {N_pad_left, N_pad_right}
                 /\ Len(parts) = 3
                 /\ int(parts[2]).ok
                 /\ parts[3] = <<" ">> )
        => ( /\ pc' = "apply_filters"
             /\ i' = i + 1
             /\ LET parts == split(split(filter, "|")[i], ":")
                    w == int(parts[2]).val
                IN  lines' = [k \in DOMAIN lines |->
                                IF strip(parts[1]) = N_pad_left
                                THEN pad_left(lines[k], w, <<" ">>)
                                ELSE pad_right(lines[k], w, <<" ">>)] ) ]_vars

\* the number of parameters a registered filter accepts, and an invocation
\* that carries more
Arity(name) ==
    IF name \in {N_pad_left, N_pad_right} THEN 2
    ELSE IF name \in {N_indent, N_truncate, N_col_width} THEN 1
    ELSE 0
SurplusParameter(f) ==
    /\ InvocationName(f) \in Names
    /\ Len(split(f, ":")) - 1 > Arity(InvocationName(f))

\* C9: a run whose chain holds an invocation with a parameter beyond what
\* its filter accepts ends in an error.
C9_SurplusParameterRaises ==
    ( /\ pc \in {"done", "raised"}
      /\ filter # None
      /\ \E k \in DOMAIN filter_chain : SurplusParameter(filter_chain[k]) )
    => pc = "raised"

\* C10: an exception ends the run: once raised, the position in the chain
\* and the lines never change again and nothing is ever printed.
C10_ErrorAborts ==
    /\ [](exc # NoExc => (pc = "raised" /\ stdout = <<>>))
    /\ [](pc = "raised" => exc # NoExc)
    /\ [][pc = "raised" => (pc' = "raised" /\ i' = i /\ lines' = lines /\ stdout' = <<>>)]_vars

\* the first of two invocations has raised on a Document that has lines
C10_Witness ==
    /\ pc = "raised"
    /\ i = 1
    /\ Len(filter_chain) = 2
    /\ lines # <<>>
    /\ stdout = <<>>

\* ------------------------------------------------- claims on the filters

\* the first segment of the chain is an invocation of name with an integer
\* first parameter, and n is that integer
FirstWidth(name, n) ==
    /\ filter_chain # <<>>
    /\ branch(filter_chain[1]) = name
    /\ Len(split(filter_chain[1], ":")) > 1
    /\ int(split(filter_chain[1], ":")[2]) = [ok |-> TRUE, val |-> n]

\* the first iteration of apply_filters has returned
FirstDone == pc = "apply_filters" /\ i = 2

\* C11: every run ends, whatever integer the invocation carries: no iteration
\* of the while loop of col_width leaves the line it is cutting as long as it
\* was. (The condition of the loop reads only that line and the width, and
\* the body changes only the line and the result: an iteration that does not
\* shorten the line is followed by the same iteration, for ever.)
C11_EveryRunTerminates ==
    [][ (pc = "col_width" /\ pc' = "col_width" /\ cw'.todo = cw.todo)
        => Len(cw'.line) < Len(cw.line) ]_vars

\* C12: col-width reconstruction: for a width n >= 1 and a Document of one
\* line, the lines col-width:n returns, concatenated in order, are the input
\* line, and every one of them but the last has length exactly n.
C12_ColWidthReconstruction ==
    \A n \in 1..LibMaxWidth :
        (FirstDone /\ Len(input) = 1 /\ FirstWidth(N_col_width, n))
        => ( /\ concat(lines) = input[1]
             /\ \A k \in 1..(Len(lines) - 1) : Len(lines[k]) = n )

\* col-width:2 has cut a line of three characters into a full piece and a
\* shorter last one
C12_Witness ==
    /\ FirstDone
    /\ FirstWidth(N_col_width, 2)
    /\ input = << <<"a","B"," ">> >>
    /\ lines = << <<"a","B">>, <<" ">> >>

\* out is the lines of doc in order, every line of doc no longer than n as one
\* line of its own, every longer one as one or more pieces of at most n
\* characters that concatenate to it
RECURSIVE SplitsOnlyLong(_, _, _)
SplitsOnlyLong(doc, out, n) ==
    IF doc = <<>> THEN out = <<>>
    ELSE \E m \in 1..Len(out) :
            /\ Len(Head(doc)) <= n => m = 1
            /\ \A k \in 1..m : Len(out[k]) <= n
            /\ concat(SubSeq(out, 1, m)) = Head(doc)
            /\ SplitsOnlyLong(Tail(doc), SubSeq(out, m + 1, Len(out)), n)

\* C13: col-width:n for n >= 1 returns lines of at most n characters, every
\* input line of at most n characters (an empty one too) as exactly one
\* unchanged line, the pieces in the order of the input lines and of the
\* characters of each line.
C13_ColWidthSplitsOnlyLongLines ==
    \A n \in 1..LibMaxWidth :
        (FirstDone /\ FirstWidth(N_col_width, n)) => SplitsOnlyLong(input, lines, n)

\* the first iteration of apply_filters was the filter name and has returned
Ran(name) == FirstDone /\ filter_chain[1] = name

\* the number of times the line l stands in the Document doc
Occurrences(doc, l) == Cardinality({k \in DOMAIN doc : doc[k] = l})

\* C14: unique is order-preserving de-duplication: the result holds every
\* distinct line of the Document exactly once and nothing else, and it is the
\* Document with every line equal to an earlier one left out (so a
\* subsequence, in the order of the first occurrences, adjacent or not).
C14_UniqueKeepsFirstOccurrences ==
    Ran(N_unique) =>
        /\ Range(lines) = Range(input)
        /\ \A l \in Range(input) : Occurrences(lines, l) = 1
        /\ lines = Pick(input, {j \in DOMAIN input : \A m \in 1..(j - 1) : input[m] # input[j]}, 1)

\* unique has dropped a repeated line that was not adjacent to its first
\* occurrence, and left the result unsorted
C14_Witness ==
    /\ Ran(N_unique)
    /\ input = << <<"a">>, <<"B">>, <<"a">> >>
    /\ lines = << <<"a">>, <<"B">> >>
    /\ str_lt(lines[2], lines[1])

\* a <= b in lexicographic order of code points: a is a prefix of b, or at the
\* first position where they differ a has the smaller character
LexLe(a, b) ==
    \/ Len(a) <= Len(b) /\ SubSeq(b, 1, Len(a)) = a
    \/ \E p \in (DOMAIN a) \cap (DOMAIN b) :
          /\ SubSeq(a, 1, p - 1) = SubSeq(b, 1, p - 1)
          /\ ord(a[p]) < ord(b[p])

\* C15: sort returns a permutation of the Document (the same length, every
\* line as many times as in the input) in which every line is
\* lexicographically less than or equal to the next.
C15_SortIsOrderedPermutation ==
    Ran(N_sort) =>
        /\ Len(lines) = Len(input)
        /\ \A l \in Range(input) \cup Range(lines) : Occurrences(lines, l) = Occurrences(input, l)
        /\ \A k \in 1..(Len(lines) - 1) : LexLe(lines[k], lines[k + 1])

\* sort has put three different lines, one a prefix of another, in order
C15_Witness ==
    /\ Ran(N_sort)
    /\ input = << <<"a","B">>, <<"a">>, <<"B">> >>
    /\ lines = << <<"B">>, <<"a">>, <<"a","B">> >>

\* C16: first and last return on every Document: on the empty Document each
\* returns the empty Document and nothing is raised, on any other first
\* returns the one-line Document of the line at position 1 and last that of
\* the line at the final position.
C16_FirstLastTotal ==
    /\ (pc = "apply_filters" /\ i = 1 /\ filter_chain # <<>>
        /\ filter_chain[1] \in {N_first, N_last})
       => (ENABLED ApplyFilter /\ ~ENABLED ApplyFilterRaise)
    /\ Ran(N_first) => lines = IF input = <<>> THEN <<>> ELSE <<input[1]>>
    /\ Ran(N_last) => lines = IF input = <<>> THEN <<>> ELSE <<input[Len(input)]>>

\* last has returned the final line of a Document whose first line is
\* another one
C16_Witness ==
    /\ Ran(N_last)
    /\ Len(input) = 3
    /\ input[1] # input[3]
    /\ lines = <<input[3]>>

\* first and last have returned on the empty Document
C16_WitnessEmpty ==
    /\ FirstDone
    /\ filter_chain[1] \in {N_first, N_last}
    /\ input = <<>>
    /\ lines = <<>>

\* the number of characters of the Document doc before its line j
RECURSIVE Offset(_, _)
Offset(doc, j) == IF j = 1 THEN 0 ELSE Offset(doc, j - 1) + Len(doc[j - 1])

\* C17: join returns exactly one line, the lines of the Document one after
\* the other with nothing between them; for the empty Document that is one
\* empty line, so that an element-wise filter after join is applied once, to
\* the whole joined input.
C17_JoinOneLine ==
    /\ Ran(N_join) =>
          /\ Len(lines) = 1
          /\ Len(lines[1]) = Offset(input, Len(input) + 1)
          /\ \A j \in DOMAIN input : \A p \in DOMAIN input[j] :
                lines[1][Offset(input, j) + p] = input[j][p]
          /\ input = <<>> => lines = << <<>> >>
    /\ \A f \in {N_count, N_uppercase} :
          (pc = "done" /\ filter_chain = <<N_join, f>>)
          => ( /\ Len(stdout) = 1
               /\ stdout[1] = filters_call(f, concat(input)) )

\* join | count on the empty Document has printed one line, the count of the
\* one empty line
C17_Witness ==
    /\ pc = "done"
    /\ filter_chain = <<N_join, N_count>>
    /\ input = <<>>
    /\ stdout = << <<"0">> >>

\* join has made one line of three
C17_WitnessLines ==
    /\ Ran(N_join)
    /\ input = << <<"a">>, <<>>, <<"a","B">> >>
    /\ lines = << <<"a","a","B">> >>

\* C18: remove-empty returns the subsequence of the Document made of the
\* lines that hold at least one character that is not whitespace: the empty
\* and the whitespace-only lines are dropped, the others kept as they are and
\* in their order.
C18_RemoveEmptyKeepsNonBlank ==
    Ran(N_remove_empty) =>
        lines = Pick(input,
                     {j \in DOMAIN input : \E p \in DOMAIN input[j] : input[j][p] \notin Whitespace},
                     1)

\* remove-empty has dropped a whitespace-only line and an empty line and
\* kept the line between them
C18_Witness ==
    /\ Ran(N_remove_empty)
    /\ input = << <<" ">>, <<"a","B">>, <<>> >>
    /\ lines = << <<"a","B">> >>

\* remove-empty has kept a line with blanks around its text as it is
C18_WitnessUnchanged ==
    /\ Ran(N_remove_empty)
    /\ input = << <<" ","a"," ">> >>
    /\ lines = input

\* the filters C19 is about
IdempotentNames == {N_trim, N_lowercase, N_uppercase, N_dedent}

\* C19: trim, lowercase, uppercase and dedent are idempotent: in a chain
\* f | f the second application returns the Document the first one returned,
\* so the chain prints what f alone prints.
C19_Idempotent ==
    /\ [][ (pc = "apply_filters" /\ i = 2 /\ Len(filter_chain) = 2
            /\ filter_chain[1] \in IdempotentNames /\ filter_chain[2] = filter_chain[1])
           => (pc' = "apply_filters" /\ i' = 3 /\ lines' = lines) ]_vars
    /\ [](( pc = "done" /\ Len(filter_chain) = 2
            /\ filter_chain[1] \in IdempotentNames /\ filter_chain[2] = filter_chain[1])
          => Returns(stdout) = apply_filters(input, <<filter_chain[1]>>))

\* dedent | dedent has run on a line with two leading blanks, and the first
\* dedent changed it
C19_Witness ==
    /\ pc = "apply_filters"
    /\ i = 3
    /\ filter_chain = <<N_dedent, N_dedent>>
    /\ input = << <<" "," ","a">> >>
    /\ lines = << <<"a">> >>

\* the first segment of the chain is the pad filter name written with the
\* width n and the fill c; the blank fill is the one of a segment written
\* without a fill, the width 10 that of a segment written without a width
PadWritten(name, n, c) ==
    /\ filter_chain # <<>>
    /\ \/ filter_chain[1] = name \o <<":">> \o WidthText(n) \o <<":">> \o c
       \/ c = <<" ">> /\ filter_chain[1] = name \o <<":">> \o WidthText(n)
       \/ c = <<" ">> /\ n = 10 /\ filter_chain[1] = name

\* out is line padded to the width w with the character ch, on the left or
\* on the right
Padded(line, out, w, ch, left) ==
    IF Len(line) >= w THEN out = line
    ELSE /\ Len(out) = w
         /\ IF left
            THEN /\ SubSeq(out, w - Len(line) + 1, w) = line
                 /\ \A p \in 1..(w - Len(line)) : out[p] = ch
            ELSE /\ SubSeq(out, 1, Len(line)) = line
                 /\ \A p \in (Len(line) + 1)..w : out[p] = ch

C20_WitnessLong ==
    /\ FirstDone
    /\ PadWritten(N_pad_right, 2, <<"_">>)
    /\ input = << <<"a","B"," ">> >>
    /\ lines = input

\* C21: truncate:n for n >= 0 returns the prefix of the line of its first
\* min(n, length) characters: a line no longer than n is returned unchanged
\* and no line returned is longer than n.
C21_TruncateIsPrefix ==
    \A n \in 0..LibMaxWidth :
        (FirstDone /\ FirstWidth(N_truncate, n)) =>
            /\ Len(lines) = Len(input)
            /\ \A k \in DOMAIN input :
                  /\ Len(lines[k]) = (IF n < Len(input[k]) THEN n ELSE Len(input[k]))
                  /\ \A p \in DOMAIN lines[k] : lines[k][p] = input[k][p]
                  /\ Len(input[k]) <= n => lines[k] = input[k]

\* truncate:2 has cut a line of three characters to its first two
C21_Witness ==
    /\ FirstDone
    /\ FirstWidth(N_truncate, 2)
    /\ input = << <<"a","B"," ">> >>
    /\ lines = << <<"a","B">> >>

\* ------------------------------------------- claims on the case filters

\* the positions of the alphanumeric characters of the line x, and of those
\* that begin a word other than the first (a word is a maximal run of
\* alphanumeric characters)
AlnumAt(x) == {p \in DOMAIN x : isalnum(x[p])}
LaterWordStarts(x) ==
    {p \in AlnumAt(x) : p > 1 /\ ~isalnum(x[p - 1]) /\ \E q \in AlnumAt(x) : q < p}

\* where the character at position p of x stands in the words of x written
\* with one separator between them
Place(x, p) ==
    Cardinality({q \in AlnumAt(x) : q <= p}) + Cardinality({q \in LaterWordStarts(x) : q <= p})

\* out is the words of x lowercased, with one sep between them
WordsJoined(x, out, sep) ==
    /\ Len(out) = Cardinality(AlnumAt(x)) + Cardinality(LaterWordStarts(x))
    /\ \A p \in AlnumAt(x) : out[Place(x, p)] = lower_char(x[p])
    /\ \A p \in LaterWordStarts(x) : out[Place(x, p) - 1] = sep

\* out holds only lowercase letters, digits and sep, does not begin or end
\* with sep, has no two sep in a row, and its alphanumeric characters are
\* those of x, lowercased, in order
SeparatedLower(x, out, sep) ==
    /\ \A k \in DOMAIN out : out[k] \in LowerSet \cup DigitSet \cup {sep}
    /\ out # <<>> => (out[1] # sep /\ out[Len(out)] # sep)
    /\ \A k \in 1..(Len(out) - 1) : ~(out[k] = sep /\ out[k + 1] = sep)
    /\ SelectSeq(out, isalnum) = lower(SelectSeq(x, isalnum))

C23_CamelCase ==
    Ran(N_camel_case) =>
        /\ Len(lines) = Len(input)
        /\ \A k \in DOMAIN input :
              /\ Len(lines[k]) = Cardinality(AlnumAt(input[k]))
              /\ \A p \in AlnumAt(input[k]) :
                    lines[k][Cardinality({q \in AlnumAt(input[k]) : q <= p})]
                       = IF p \in LaterWordStarts(input[k]) THEN upper_char(input[k][p])
                         ELSE lower_char(input[k][p])

\* the character at position p of x is the first of a word delimited by
\* whitespace
WordStart(x, p) == x[p] \notin Whitespace /\ (p = 1 \/ x[p - 1] \in Whitespace)

\* C24: title-case uppercases the first letter of every whitespace-delimited
\* word of the line: a letter is uppercased exactly when it is the first
\* character of such a word, also in words that hold digits, apostrophes or
\* hyphens; what is not a letter stays as it is.
C24_TitleCase ==
    Ran(N_title_case) =>
        /\ Len(lines) = Len(input)
        /\ \A k \in DOMAIN input :
              /\ Len(lines[k]) = Len(input[k])
              /\ \A p \in DOMAIN input[k] :
                    /\ (iscased(input[k][p]) /\ WordStart(input[k], p))
                          => lines[k][p] = upper_char(input[k][p])
                    /\ (input[k][p] \in LowerSet /\ ~WordStart(input[k], p))
                          => lines[k][p] = input[k][p]
                    /\ ~iscased(input[k][p]) => lines[k][p] = input[k][p]

\* --------------------------------------------- claims on whole chains

\* C25: filters are pure: no step of a run changes the Document the run was
\* given; while apply_filters runs, and after it has returned or raised, the
\* input has the lines it had, in the same order.
C25_InputNeverModified ==
    [][input' = input]_vars

\* sort | join has returned a Document other than the one of two lines it
\* was given
C25_Witness ==
    /\ pc = "done"
    /\ filter_chain = <<N_sort, N_join>>
    /\ Len(input) = 2
    /\ str_lt(input[2], input[1])
    /\ stdout # input

\* C26: whether an invocation fails because of its parameters does not depend
\* on the Document: a run whose chain holds a segment with an invalid
\* parameter (a width that is not an integer, a pad fill that is empty or
\* longer than one character) ends as the run of the same chain on the empty
\* Document ends, raising when that raises and with the same exception.
C26_ParameterFailureIgnoresDocument ==
    ( /\ pc \in {"done", "raised"}
      /\ filter # None
      /\ \E k \in DOMAIN filter_chain : MalformedInvocation(filter_chain[k]) )
    => ( /\ (pc = "raised") = ~apply_filters(<<>>, filter_chain).ok
         /\ exc = apply_filters(<<>>, filter_chain).exc )

\* C27: sort and unique commute: sort | unique and unique | sort print the
\* same Document, which is strictly ascending and holds exactly the distinct
\* lines of the input.
C27_SortUniqueCommute ==
    ( /\ pc = "done"
      /\ filter_chain \in { <<N_sort, N_unique>>, <<N_unique, N_sort>> } )
    => ( /\ Returns(stdout) = apply_filters(input, <<filter_chain[2], filter_chain[1]>>)
         /\ Range(stdout) = Range(input)
         /\ \A k \in 1..(Len(stdout) - 1) :
               LexLe(stdout[k], stdout[k + 1]) /\ stdout[k] # stdout[k + 1] )

\* unique | sort has printed the two distinct lines of a Document of three,
\* in another order than that of their first occurrences
C27_Witness ==
    /\ pc = "done"
    /\ filter_chain = <<N_unique, N_sort>>
    /\ input = << <<"a">>, <<"B">>, <<"a">> >>
    /\ stdout = << <<"B">>, <<"a">> >>

\* C28: for a count n <= 0, truncate:n returns the empty line for every line
\* and indent:n returns every line unchanged.
C28_NonPositiveCount ==
    \A n \in {m \in LibWidths : m <= 0} :
        /\ (FirstDone /\ FirstWidth(N_truncate, n)) =>
              /\ Len(lines) = Len(input)
              /\ \A k \in DOMAIN lines : lines[k] = <<>>
        /\ (FirstDone /\ FirstWidth(N_indent, n)) => lines = input

\* C29: reverse is an involution that keeps the shape of the Document:
\* reverse | reverse prints the input, and reverse alone keeps the number of
\* lines, their order and the length of each, reversing only the characters
\* inside each line.
C29_ReverseInvolution ==
    /\ Ran(N_reverse) =>
          /\ Len(lines) = Len(input)
          /\ \A k \in DOMAIN input :
                /\ Len(lines[k]) = Len(input[k])
                /\ \A p \in DOMAIN input[k] : lines[k][p] = input[k][Len(input[k]) + 1 - p]
    /\ (pc = "done" /\ filter_chain = <<N_reverse, N_reverse>>) => stdout = input

\* reverse has turned the one line of two characters of a Document of three
\* lines, and left the lines in their order
C29_Witness ==
    /\ Ran(N_reverse)
    /\ input = << <<"a">>, <<"a","B">>, <<"B">> >>
    /\ lines = << <<"a">>, <<"B","a">>, <<"B">> >>

\* reverse | reverse has printed a line that is not its own reverse
C29_WitnessTwice ==
    /\ pc = "done"
    /\ filter_chain = <<N_reverse, N_reverse>>
    /\ input = << <<"a","B"," ">> >>
    /\ stdout = input

\* C30: snake-case and kebab-case are idempotent and kebab-case normalises
\* what snake-case returns: snake-case | snake-case prints what snake-case
\* prints, kebab-case | kebab-case what kebab-case prints, and
\* snake-case | kebab-case what kebab-case prints.
C30_SnakeKebabIdempotent ==
    ( /\ pc = "done"
      /\ filter_chain \in { <<N_snake_case, N_snake_case>>, <<N_kebab_case, N_kebab_case>>,
                            <<N_snake_case, N_kebab_case>> } )
    => Returns(stdout) = apply_filters(input, <<filter_chain[2]>>)

\* snake-case | kebab-case has printed the two words of a line joined by '-'
C30_Witness ==
    /\ pc = "done"
    /\ filter_chain = <<N_snake_case, N_kebab_case>>
    /\ input = << <<"B"," ","a">> >>
    /\ stdout = << <<"b","-","a">> >>

\* snake-case | snake-case has printed a line whose leading separator the
\* first snake-case removed
C30_WitnessTwice ==
    /\ pc = "done"
    /\ filter_chain = <<N_snake_case, N_snake_case>>
    /\ input = << <<"-","a","B">> >>
    /\ stdout = << <<"a","b">> >>

====
